---- MODULE Spec2Model ----
(***************************************************************************)
(* Model of the component-tag front end of the html! macro                 *)
(* (crates/macro/src/html_tree/html_component.rs).                         *)
(*                                                                         *)
(* A tag is a sequence of tokens.  A token is a record [k, s]: k is the    *)
(* token kind ("ident", "punct", "lit") and s its text, a sequence of      *)
(* ASCII code points.  The span of the token at index i is [i, i]; a span  *)
(* joining several tokens is [first, last]; the span [0, 0] stands for     *)
(* Span::call_site(), which syn uses for errors raised at end of input.    *)
(***************************************************************************)
EXTENDS Integers, Sequences, FiniteSets, TLC

VARIABLES tokens, pc, peeked, parsed, emitted

vars == <<tokens, pc, peeked, parsed, emitted>>

(***************************************************************************)
(* Bounds of the explored inputs.                                          *)
(***************************************************************************)
\* longest raw token sequence handed to the classifier
MaxPeekLen == 4
\* longest raw token sequence placed after the type of a tag
MaxRest == 3
\* most property declarations in a rendered property list
MaxProps == 3

(***************************************************************************)
(* Tokens and strings.                                                     *)
(***************************************************************************)
Ident(s) == [k |-> "ident", s |-> s]

Punct(c) == [k |-> "punct", s |-> <<c>>]

Lit(c) == [k |-> "lit", s |-> <<c>>]

\* "with"
WithStr == <<119, 105, 116, 104>>

\* "type"
TypeStr == <<116, 121, 112, 101>>

\* "a", "ab", "B", "Foo"
NameA == <<97>>

NameAb == <<97, 98>>

NameB == <<66>>

NameFoo == <<70, 111, 111>>

Lt == Punct(60)

Gt == Punct(62)

Slash == Punct(47)

Colon == Punct(58)

Eq == Punct(61)

Comma == Punct(44)

Dash == Punct(45)

\* Cursor::ident: any identifier token, keywords included
CursorIdent(toks, i, n) == i >= 1 /\ i <= n /\ toks[i].k = "ident"

\* Cursor::punct followed by the comparison of as_char
CursorPunct(toks, i, n, c) == i >= 1 /\ i <= n /\ toks[i].k = "punct" /\ toks[i].s = <<c>>

\* str::to_lowercase on ASCII text
to_lowercase(s) == [j \in 1..Len(s) |-> IF s[j] >= 65 /\ s[j] <= 90 THEN s[j] + 32 ELSE s[j]]

(***************************************************************************)
(* Tag Classifier: HtmlComponent::peek, double_colon, peek_type.           *)
(***************************************************************************)
\* faulty variant: one colon is taken for a separator
double_colon_single(toks, cursor, n) ==
    IF CursorPunct(toks, cursor, n, 58) THEN cursor + 1 ELSE 0

\* the cursor after two ':' puncts, 0 for None
double_colon(toks, cursor, n) ==
    IF CursorPunct(toks, cursor, n, 58) /\ CursorPunct(toks, cursor + 1, n, 58)
    THEN cursor + 2
    ELSE 0

RECURSIVE peek_type_loop(_, _, _, _, _)
\* the loop of peek_type; yields the accumulated type_str and the cursor
peek_type_loop(toks, n, cursor, type_str, colons_optional) ==
    LET dc == double_colon(toks, cursor, n)
        found_colons == dc # 0
        post_colons_cursor == IF found_colons THEN dc ELSE cursor
    IN  IF ~found_colons /\ ~colons_optional
        THEN [type_str |-> type_str, cursor |-> cursor]
        ELSE IF CursorIdent(toks, post_colons_cursor, n)
             THEN peek_type_loop(toks, n, post_colons_cursor + 1,
                      type_str \o (IF found_colons THEN <<58, 58>> ELSE <<>>)
                               \o toks[post_colons_cursor].s,
                      FALSE)
             ELSE [type_str |-> type_str, cursor |-> cursor]

\* faulty variant: any non-empty path is accepted
accept_type_str_nonempty(type_str) == type_str # <<>>

\* the acceptance test at the end of peek_type
accept_type_str(type_str) ==
    IF type_str = <<>> THEN FALSE ELSE to_lowercase(type_str) # type_str

peek_type(toks, cursor, n) ==
    accept_type_str(peek_type_loop(toks, n, cursor, <<>>, TRUE).type_str)

\* HtmlComponent::peek on the whole tag
HtmlComponent_peek(toks) ==
    IF CursorPunct(toks, 1, Len(toks), 60)
    THEN peek_type(toks, 2, Len(toks))
    ELSE FALSE

(***************************************************************************)
(* Spans, errors and parse results.                                        *)
(***************************************************************************)
CallSite == [a |-> 0, b |-> 0]

TokSpan(i) == [a |-> i, b |-> i]

JoinSpan(i, j) == [a |-> i, b |-> j]

NoErr == [msg |-> <<>>, span |-> CallSite]

\* syn::Error::new_spanned(tokens, message)
new_spanned(span, message) == [msg |-> <<message>>, span |-> span]

\* syn's error at a cursor: at end of input the message gets the prefix
\* "unexpected end of input, " and the span is the scope's (call_site)
new_at(i, n, message) ==
    IF i > n
    THEN [msg |-> <<"unexpected end of input", message>>, span |-> CallSite]
    ELSE [msg |-> <<message>>, span |-> TokSpan(i)]

Ok(v, nx) == [ok |-> TRUE, val |-> v, next |-> nx, err |-> NoErr]

Fail(e) == [ok |-> FALSE, val |-> <<>>, next |-> 0, err |-> e]

\* the Rust keywords among the identifiers of the model: syn's Ident
\* parser and path parser refuse them, Cursor::ident does not
IsKeyword(s) == s = TypeStr

\* input.parse::<Ident>()
ParseIdent(toks, i, n) ==
    IF CursorIdent(toks, i, n) /\ ~IsKeyword(toks[i].s)
    THEN Ok([s |-> toks[i].s, span |-> TokSpan(i)], i + 1)
    ELSE Fail(new_at(i, n, "expected identifier"))

RECURSIVE ParsePathRest(_, _, _, _, _, _)
\* the `:: segment` repetitions of a type path
ParsePathRest(toks, i, n, lead, segs, first) ==
    IF double_colon(toks, i, n) # 0
    THEN IF CursorIdent(toks, i + 2, n) /\ ~IsKeyword(toks[i + 2].s)
         THEN ParsePathRest(toks, i + 3, n, lead, Append(segs, toks[i + 2].s), first)
         ELSE Fail(new_at(i + 2, n, "expected identifier"))
    ELSE Ok([leading_colon |-> lead, segments |-> segs, span |-> JoinSpan(first, i - 1)], i)

\* input.parse::<Type>() restricted to type paths
ParseType(toks, i, n) ==
    LET lead == double_colon(toks, i, n) # 0
        j == IF lead THEN i + 2 ELSE i
    IN  IF CursorIdent(toks, j, n) /\ ~IsKeyword(toks[j].s)
        THEN ParsePathRest(toks, j + 1, n, lead, <<toks[j].s>>, i)
        ELSE Fail(new_at(j, n, "expected type"))

(***************************************************************************)
(* Property declarations (HtmlProp, HtmlPropLabel): collaborators of the   *)
(* component parser.  A step that uses the result of an earlier step takes *)
(* that result as a parameter.                                             *)
(***************************************************************************)
\* HtmlProp::peek: a declaration starts with an identifier
HtmlProp_peek(toks, i, n) == CursorIdent(toks, i, n)

RECURSIVE ParseExtended(_, _, _, _)
\* the `-ident` qualifiers of a label
ParseExtended(toks, i, n, ext) ==
    IF CursorPunct(toks, i, n, 45)
    THEN IF CursorIdent(toks, i + 1, n)
         THEN ParseExtended(toks, i + 2, n, Append(ext, toks[i + 1].s))
         ELSE Fail(new_at(i + 1, n, "expected identifier"))
    ELSE Ok(ext, i)

\* HtmlProp::parse after the label e: `=` value
HtmlProp_value(toks, i, n, e) ==
    IF ~e.ok THEN Fail(e.err)
    ELSE IF ~CursorPunct(toks, e.next, n, 61)
    THEN Fail(new_at(e.next, n, "expected ="))
    ELSE IF e.next + 1 <= n /\ toks[e.next + 1].k = "lit"
    THEN Ok([label |-> [name |-> toks[i].s, extended |-> e.val,
                        span |-> JoinSpan(i, e.next - 1)],
             value |-> [s |-> toks[e.next + 1].s, span |-> TokSpan(e.next + 1)]],
            e.next + 2)
    ELSE Fail(new_at(e.next + 1, n, "expected expression"))

\* HtmlProp::parse: label `=` value
HtmlProp_parse(toks, i, n) ==
    IF ~CursorIdent(toks, i, n)
    THEN Fail(new_at(i, n, "expected identifier"))
    ELSE HtmlProp_value(toks, i, n, ParseExtended(toks, i + 1, n, <<>>))

RECURSIVE ExtendedString(_)
ExtendedString(ext) ==
    IF ext = <<>> THEN <<>> ELSE <<45>> \o Head(ext) \o ExtendedString(Tail(ext))

\* HtmlPropLabel's to_string: the name, then `-qualifier` for each qualifier
LabelString(label) == label.name \o ExtendedString(label.extended)

(***************************************************************************)
(* Property List Parser: ListProps::parse.                                 *)
(***************************************************************************)
RECURSIVE ListLoop(_, _, _, _)
RECURSIVE ListPush(_, _, _, _)
\* props.push(input.parse::<HtmlProp>()?) with r the result of the parse
ListPush(toks, n, props, r) ==
    IF r.ok THEN ListLoop(toks, r.next, n, Append(props, r.val)) ELSE Fail(r.err)

\* while HtmlProp::peek(..).is_some() { props.push(input.parse()?) }
ListLoop(toks, i, n, props) ==
    IF HtmlProp_peek(toks, i, n)
    THEN ListPush(toks, n, props, HtmlProp_parse(toks, i, n))
    ELSE Ok(props, i)

\* faulty variant: the reserved word is not looked for
invalid_label_extended_only(prop) == prop.label.extended # <<>>

\* the two tests of the validation loop on one declaration
invalid_label(prop) ==
    \/ LabelString(prop.label) = TypeStr
    \/ prop.label.extended # <<>>

\* the declarations the validation loop would return at
invalid_indexes(props) == {j \in 1..Len(props) : invalid_label(props[j])}

\* the least index of a set of indexes
MinIndex(set) == CHOOSE j \in set : \A k \in set : j <= k

RECURSIVE StrCmp(_, _)
\* String::partial_cmp: bytewise lexicographic order; -1, 0 or 1
StrCmp(x, y) ==
    IF x = <<>> THEN (IF y = <<>> THEN 0 ELSE -1)
    ELSE IF y = <<>> THEN 1
    ELSE IF Head(x) < Head(y) THEN -1
    ELSE IF Head(x) > Head(y) THEN 1
    ELSE StrCmp(Tail(x), Tail(y))

\* the comparator handed to sort_by
cmp_label(x, y) == StrCmp(LabelString(x.label), LabelString(y.label))

RECURSIVE insert_before_equal(_, _)
\* faulty variant: a declaration is placed before the equal ones
insert_before_equal(sorted, p) ==
    IF sorted = <<>> THEN <<p>>
    ELSE IF cmp_label(p, Head(sorted)) <= 0 THEN <<p>> \o sorted
    ELSE <<Head(sorted)>> \o insert_before_equal(Tail(sorted), p)

RECURSIVE insert_sorted(_, _)
\* places p after every declaration not greater than it (sort_by is stable)
insert_sorted(sorted, p) ==
    IF sorted = <<>> THEN <<p>>
    ELSE IF cmp_label(p, Head(sorted)) < 0 THEN <<p>> \o sorted
    ELSE <<Head(sorted)>> \o insert_sorted(Tail(sorted), p)

RECURSIVE sort_from(_, _)
sort_from(sorted, rest) ==
    IF rest = <<>> THEN sorted
    ELSE sort_from(insert_sorted(sorted, Head(rest)), Tail(rest))

\* faulty variant: the list is left in source order
sort_by_skipped(props) == props

\* props.sort_by(..): a stable sort by label text
sort_by(props) == sort_from(<<>>, props)

\* the validation loop and the sort, on the declarations the loop collected
validate_and_sort(props, next, bad) ==
    IF bad # {}
    THEN Fail(new_spanned(props[MinIndex(bad)].label.span, "expected identifier"))
    ELSE Ok(sort_by(props), next)

\* ListProps::parse after the collecting loop, l its result
ListProps_finish(l) ==
    IF ~l.ok THEN Fail(l.err)
    ELSE validate_and_sort(l.val, l.next, invalid_indexes(l.val))

ListProps_parse(toks, i, n) == ListProps_finish(ListLoop(toks, i, n, <<>>))

(***************************************************************************)
(* Property Delegate Parser: WithProps::parse.                             *)
(***************************************************************************)
\* faulty variant: the trailing comma is left in the stream
skip_comma_never(toks, i, n) == i

\* let _ = input.parse::<Token![,]>()
skip_comma(toks, i, n) == IF CursorPunct(toks, i, n, 44) THEN i + 1 ELSE i

\* the delegate identifier and the optional comma, props the parsed identifier
WithProps_ident(toks, n, props) ==
    IF ~props.ok THEN Fail(props.err)
    ELSE Ok(props.val, skip_comma(toks, props.next, n))

\* the keyword test, kw the parsed leading identifier
WithProps_keyword(toks, n, kw) ==
    IF ~kw.ok THEN Fail(kw.err)
    ELSE IF kw.val.s # WithStr
    THEN Fail(new_at(kw.next, n, "expected to find with token"))
    ELSE WithProps_ident(toks, n, ParseIdent(toks, kw.next, n))

WithProps_parse(toks, i, n) == WithProps_keyword(toks, n, ParseIdent(toks, i, n))

(***************************************************************************)
(* Component Tag Parser: Props::peek, HtmlComponentInner::parse,           *)
(* HtmlComponent::parse.                                                   *)
(***************************************************************************)
NoIdent == [s |-> <<>>, span |-> CallSite]

NoType == [leading_colon |-> FALSE, segments |-> <<>>, span |-> CallSite]

NoProps == [kind |-> "None", list |-> <<>>, with |-> NoIdent]

NoComp == [ty |-> NoType, props |-> NoProps]

\* faulty variant: every identifier selects the list form
Props_peek_list_only(toks, i, n) ==
    IF CursorIdent(toks, i, n) THEN "List" ELSE "None"

\* Props::peek: "With", "List", or "None" when no identifier follows
Props_peek(toks, i, n) ==
    IF CursorIdent(toks, i, n)
    THEN IF toks[i].s = WithStr THEN "With" ELSE "List"
    ELSE "None"

\* let _ = input.parse::<Token![:]>()
skip_colon(toks, i, n) == IF CursorPunct(toks, i, n, 58) THEN i + 1 ELSE i

\* .map(Props::List).map(Some)? and the Ok of HtmlComponentInner::parse
wrap_list(ty, r) ==
    IF ~r.ok THEN Fail(r.err)
    ELSE Ok([ty |-> ty, props |-> [kind |-> "List", list |-> r.val, with |-> NoIdent]],
            r.next)

\* .map(Props::With).map(Some)? and the Ok of HtmlComponentInner::parse
wrap_with(ty, r) ==
    IF ~r.ok THEN Fail(r.err)
    ELSE Ok([ty |-> ty, props |-> [kind |-> "With", list |-> <<>>, with |-> r.val]],
            r.next)

\* the match on the peeked property form, j the cursor after the colon
parse_props(toks, j, n, ty, prop_type) ==
    IF prop_type = "List" THEN wrap_list(ty, ListProps_parse(toks, j, n))
    ELSE IF prop_type = "With" THEN wrap_with(ty, WithProps_parse(toks, j, n))
    ELSE Ok([ty |-> ty, props |-> NoProps], j)

\* HtmlComponentInner::parse after the type, ty the result of its parse
parse_after_type(toks, n, ty) ==
    IF ~ty.ok THEN Fail(ty.err)
    ELSE parse_props(toks, skip_colon(toks, ty.next, n), n, ty.val,
                     Props_peek(toks, skip_colon(toks, ty.next, n), n))

HtmlComponentInner_parse(toks, i, n) == parse_after_type(toks, n, ParseType(toks, i, n))

\* syn::parse requires the parser to consume the whole stream
check_consumed(n, r) ==
    IF r.ok /\ r.next <= n THEN Fail(new_at(r.next, n, "unexpected token")) ELSE r

\* parse(stream)
parse_stream(toks, i, n) == check_consumed(n, HtmlComponentInner_parse(toks, i, n))

\* the indexes of `/` and `>` from index i on
suffix_stops(toks, i) ==
    {j \in i..Len(toks) : CursorPunct(toks, j, Len(toks), 47)
                          \/ CursorPunct(toks, j, Len(toks), 62)}

\* the suffix that stops at index j
suffix_at(toks, j) ==
    IF CursorPunct(toks, j, Len(toks), 62)
    THEN [ok |-> TRUE, end |-> j - 1, div |-> 0, gt |-> j, err |-> NoErr]
    ELSE IF CursorPunct(toks, j + 1, Len(toks), 62)
    THEN [ok |-> TRUE, end |-> j - 1, div |-> j, gt |-> j + 1, err |-> NoErr]
    ELSE [ok |-> FALSE, end |-> 0, div |-> 0, gt |-> 0,
          err |-> new_at(j + 1, Len(toks), "expected >")]

\* HtmlPropSuffix::parse from index i: the interior stream ends at `end`,
\* div and gt are the indexes of `/` and `>`, div = 0 when there is no `/`
HtmlPropSuffix_parse(toks, i) ==
    IF suffix_stops(toks, i) = {}
    THEN [ok |-> FALSE, end |-> 0, div |-> 0, gt |-> 0,
          err |-> new_at(Len(toks) + 1, Len(toks), "missing tag close")]
    ELSE suffix_at(toks, MinIndex(suffix_stops(toks, i)))

\* err.to_string().starts_with(prefix): a message is a sequence of parts
starts_with(msg, prefix) == msg # <<>> /\ msg[1] = prefix

\* faulty variant: the inner error is returned as it is
translate_error_never(err, div) == err

\* the Err arm of the match on the inner parse
translate_error(err, div) ==
    IF starts_with(err.msg, "unexpected end of input")
    THEN [msg |-> err.msg, span |-> TokSpan(div)]
    ELSE err

\* the match on the inner parse, r its result
match_inner(r, div) ==
    IF r.ok THEN [ok |-> TRUE, comp |-> r.val, err |-> NoErr]
    ELSE [ok |-> FALSE, comp |-> NoComp, err |-> translate_error(r.err, div)]

\* the error of a tag that is not self-closed
malformed_tag(gt) ==
    [ok |-> FALSE, comp |-> NoComp,
     err |-> new_spanned(JoinSpan(1, gt), "expected component tag be of form < .. />")]

\* faulty variant: the interior is parsed before the self-close test
self_close_test_late(div, gt, r) ==
    IF ~r.ok THEN match_inner(r, div)
    ELSE IF div = 0 THEN malformed_tag(gt)
    ELSE match_inner(r, div)

\* the self-close test, then the match on the inner parse r
self_close_test(div, gt, r) ==
    IF div = 0 THEN malformed_tag(gt) ELSE match_inner(r, div)

\* HtmlComponent::parse after the suffix is split off
parse_tag(toks, suffix) ==
    IF ~suffix.ok THEN [ok |-> FALSE, comp |-> NoComp, err |-> suffix.err]
    ELSE self_close_test(suffix.div, suffix.gt, parse_stream(toks, 2, suffix.end))

HtmlComponent_parse(toks) ==
    IF ~CursorPunct(toks, 1, Len(toks), 60)
    THEN [ok |-> FALSE, comp |-> NoComp, err |-> new_at(1, Len(toks), "expected <")]
    ELSE parse_tag(toks, HtmlPropSuffix_parse(toks, 2))

(***************************************************************************)
(* Static Validator / Emitter: HtmlComponent::to_tokens.  The emitted      *)
(* block is kept as its parts: the type of the validation trait, whether   *)
(* the __yew_prop_ref placeholder is declared, the field accesses on it,   *)
(* and the properties expression handed to VComp::new.                     *)
(***************************************************************************)
\* faulty variant: the first declaration is not checked
check_props_skip_first(vec_props) ==
    [j \in 1..(Len(vec_props) - 1) |-> LabelString(vec_props[j + 1].label)]

\* one `__yew_prop_ref.label;` per declaration
check_props(vec_props) ==
    [j \in 1..Len(vec_props) |-> LabelString(vec_props[j].label)]

\* one `.label(transform(scope.clone(), value))` per declaration
set_props(vec_props) ==
    [j \in 1..Len(vec_props) |->
        [label |-> LabelString(vec_props[j].label),
         value |-> vec_props[j].value.s,
         span |-> vec_props[j].value.span]]

to_tokens(comp) ==
    [validate_comp |-> comp.ty,
     prop_ref |-> comp.props.kind = "List",
     check_props |-> IF comp.props.kind = "List"
                     THEN check_props(comp.props.list) ELSE <<>>,
     init_props |->
        IF comp.props.kind = "List"
        THEN [kind |-> "builder", set_props |-> set_props(comp.props.list),
              with |-> <<>>]
        ELSE IF comp.props.kind = "With"
        THEN [kind |-> "with", set_props |-> <<>>, with |-> comp.props.with.s]
        ELSE [kind |-> "builder", set_props |-> <<>>, with |-> <<>>],
     new_ty |-> comp.ty]

(***************************************************************************)
(* The tags explored.                                                      *)
(***************************************************************************)
SeqsUpTo(S, n) == UNION {[1..m -> S] : m \in 0..n}

PeekAlphabet == {Colon, Ident(NameA), Ident(NameB), Eq}

RestAlphabet ==
    {Ident(NameA), Ident(WithStr), Ident(TypeStr), Eq, Lit(49), Comma, Colon}

TypeForms == {<<Ident(NameFoo)>>, <<Ident(NameB), Colon, Colon, Ident(NameA)>>, <<>>}

Closers == {<<Slash, Gt>>, <<Gt>>, <<>>}

\* a=1, a=2, ab=1, B=1, type=1, a-B=1
Decls ==
    {[name |-> NameA, ext |-> <<>>, value |-> 49],
     [name |-> NameA, ext |-> <<>>, value |-> 50],
     [name |-> NameAb, ext |-> <<>>, value |-> 49],
     [name |-> NameB, ext |-> <<>>, value |-> 49],
     [name |-> TypeStr, ext |-> <<>>, value |-> 49],
     [name |-> NameA, ext |-> <<NameB>>, value |-> 49]}

Render(d) ==
    <<Ident(d.name)>>
    \o (IF d.ext = <<>> THEN <<>> ELSE <<Dash, Ident(d.ext[1])>>)
    \o <<Eq, Lit(d.value)>>

RECURSIVE RenderAll(_)
RenderAll(ds) == IF ds = <<>> THEN <<>> ELSE Render(Head(ds)) \o RenderAll(Tail(ds))

PeekInputs == {<<Lt>> \o s : s \in SeqsUpTo(PeekAlphabet, MaxPeekLen)}

RawInputs ==
    {<<Lt>> \o t \o r \o c : t \in TypeForms, r \in SeqsUpTo(RestAlphabet, MaxRest),
                             c \in Closers}

ListInputs ==
    {<<Lt, Ident(NameFoo)>> \o RenderAll(ds) \o <<Slash, Gt>> :
        ds \in SeqsUpTo(Decls, MaxProps)}

NoLtInputs == {<<>>, <<Ident(NameFoo), Slash, Gt>>}

Inputs == PeekInputs \cup RawInputs \cup ListInputs \cup NoLtInputs

(***************************************************************************)
(* The state machine: one tag is classified, parsed and emitted.           *)
(***************************************************************************)
NotParsed == [ok |-> FALSE, comp |-> NoComp, err |-> NoErr]

NotEmitted == to_tokens(NoComp)

Init ==
    /\ tokens \in Inputs
    /\ pc = "start"
    /\ peeked = "none"
    /\ parsed = NotParsed
    /\ emitted = NotEmitted

\* HtmlComponent::peek
Peek ==
    /\ pc = "start"
    /\ peeked' = IF HtmlComponent_peek(tokens) THEN "match" ELSE "nomatch"
    /\ pc' = "peeked"
    /\ UNCHANGED <<tokens, parsed, emitted>>

\* HtmlComponent::parse
Parse ==
    /\ pc = "peeked"
    /\ parsed' = HtmlComponent_parse(tokens)
    /\ pc' = "parsed"
    /\ UNCHANGED <<tokens, peeked, emitted>>

\* HtmlComponent::to_tokens
Emit ==
    /\ pc = "parsed"
    /\ parsed.ok
    /\ emitted' = to_tokens(parsed.comp)
    /\ pc' = "emitted"
    /\ UNCHANGED <<tokens, peeked, parsed>>

Next == Peek \/ Parse \/ Emit

Spec == Init /\ [][Next]_vars

(***************************************************************************)
(* Vocabulary of the properties: the tag in the state, taken apart.        *)
(***************************************************************************)
HasLt == CursorPunct(tokens, 1, Len(tokens), 60)

Suffix == HtmlPropSuffix_parse(tokens, 2)

SelfClosed == HasLt /\ Suffix.ok /\ Suffix.div # 0

Parsed == pc \in {"parsed", "emitted"}

\* the type reference at the head of the interior
Ty == ParseType(tokens, 2, Suffix.end)

\* the index of the first token after the type and the optional colon
PropsAt ==
    IF Ty.next <= Suffix.end /\ tokens[Ty.next] = Colon THEN Ty.next + 1 ELSE Ty.next

\* the declarations read from PropsAt on, in source order
Collected == ListLoop(tokens, PropsAt, Suffix.end, <<>>)

RECURSIVE Text(_)
\* the text of a token sequence
Text(p) == IF p = <<>> THEN <<>> ELSE Head(p).s \o Text(Tail(p))

\* identifier (`::` identifier)*
PathBody(p) ==
    /\ Len(p) % 3 = 1
    /\ \A j \in 1..Len(p) : IF j % 3 = 1 THEN p[j].k = "ident" ELSE p[j] = Colon

\* a type path: a path body, optionally preceded by `::`
IsTypePath(p) ==
    \/ PathBody(p)
    \/ Len(p) >= 3 /\ p[1] = Colon /\ p[2] = Colon /\ PathBody(SubSeq(p, 3, Len(p)))

\* the lengths of the type paths the tokens after `<` begin with
PathLens == {k \in 1..(Len(tokens) - 1) : IsTypePath(SubSeq(tokens, 2, k + 1))}

\* the longest type path the tokens after `<` begin with
LongestPath ==
    SubSeq(tokens, 2, 1 + (CHOOSE k \in PathLens : \A m \in PathLens : m <= k))

\* a label and its value without their spans
Strip(props) ==
    [j \in 1..Len(props) |->
        [label |-> LabelString(props[j].label), value |-> props[j].value.s]]

(***************************************************************************)
(* Tag Classifier.                                                         *)
(***************************************************************************)
\* C1: the classifier matches exactly when the tokens after `<` begin with
\* a type path and the text of the longest such path differs from its
\* lowercased form; without a path, or with an all-lowercase one, no match.
C1_ClassifyIffPathWithUppercase ==
    pc # "start" =>
        (peeked = "match" <=>
            /\ HasLt
            /\ PathLens # {}
            /\ to_lowercase(Text(LongestPath)) # Text(LongestPath))

\* a path of several segments was classified as a component
C1_Witness ==
    /\ pc = "peeked"
    /\ peeked = "match"
    /\ PathLens # {}
    /\ Len(LongestPath) >= 4

\* C2 as stated: the last segment of a matched path is not all lowercase.
C2_LastSegmentNotLowercase ==
    (pc # "start" /\ peeked = "match") =>
        to_lowercase(LongestPath[Len(LongestPath)].s) # LongestPath[Len(LongestPath)].s

\* C2 amended: some segment of a matched path, not necessarily the last,
\* holds a character that lowercasing changes.
C2_SomeSegmentNotLowercase ==
    (pc # "start" /\ peeked = "match") =>
        \E j \in 1..Len(LongestPath) :
            /\ LongestPath[j].k = "ident"
            /\ to_lowercase(LongestPath[j].s) # LongestPath[j].s

\* a match on a path whose last segment is all lowercase
C2_Witness ==
    /\ pc = "peeked"
    /\ peeked = "match"
    /\ to_lowercase(LongestPath[Len(LongestPath)].s) = LongestPath[Len(LongestPath)].s

(***************************************************************************)
(* Component Tag Parser: errors.                                           *)
(***************************************************************************)
\* C3: a tag that closes with `>` and has no `/` fails with the malformed
\* tag error on the span from `<` to `>`, whatever its interior holds.
C3_NotSelfClosedIsMalformedTag ==
    (Parsed /\ HasLt /\ Suffix.ok /\ Suffix.div = 0) =>
        /\ ~parsed.ok
        /\ parsed.comp = NoComp
        /\ parsed.err = [msg |-> <<"expected component tag be of form < .. />">>,
                         span |-> [a |-> 1, b |-> Suffix.gt]]

\* a tag without `/` whose interior, parsed alone, fails with its own error
C3_Witness ==
    /\ pc = "parsed"
    /\ peeked = "match"
    /\ HasLt /\ Suffix.ok /\ Suffix.div = 0
    /\ ~parse_stream(tokens, 2, Suffix.end).ok
    /\ ~parsed.ok

\* C4: when the interior of a self-closed tag fails at the end of its
\* input, the error keeps its message and is anchored to `/`; any other
\* interior error is returned with its message and its span.
C4_EndOfInputAnchoredToDiv ==
    (Parsed /\ SelfClosed /\ ~parse_stream(tokens, 2, Suffix.end).ok) =>
        /\ ~parsed.ok
        /\ IF parse_stream(tokens, 2, Suffix.end).err.span = CallSite
           THEN parsed.err = [msg |-> parse_stream(tokens, 2, Suffix.end).err.msg,
                              span |-> [a |-> Suffix.div, b |-> Suffix.div]]
           ELSE parsed.err = parse_stream(tokens, 2, Suffix.end).err

\* a declaration without its value: the interior ends after `=`
C4_Witness ==
    /\ pc = "parsed"
    /\ peeked = "match"
    /\ SelfClosed
    /\ Ty.ok
    /\ tokens[Suffix.end] = Eq
    /\ parsed.err.span = [a |-> Suffix.div, b |-> Suffix.div]

(***************************************************************************)
(* Property List Parser.                                                   *)
(***************************************************************************)
\* a tag whose parse gave a property list
ListParsed == Parsed /\ parsed.ok /\ parsed.comp.props.kind = "List"

\* C5: the list returned is sorted by label text, holds exactly the
\* declarations read (repeated labels included), keeps declarations with
\* equal labels in source order, and sorting it again changes nothing.
C5_SortedStablePermutation ==
    ListParsed =>
        LET L == parsed.comp.props.list
        IN  /\ \A i, k \in 1..Len(L) :
                  i < k => StrCmp(LabelString(L[i].label), LabelString(L[k].label)) <= 0
            /\ Len(L) = Len(Collected.val)
            /\ {L[i] : i \in 1..Len(L)} = {Collected.val[i] : i \in 1..Len(L)}
            /\ \A i, k \in 1..Len(L) :
                  (i < k /\ LabelString(L[i].label) = LabelString(L[k].label))
                      => L[i].label.span.a < L[k].label.span.a
            /\ sort_by(L) = L

\* three declarations out of order, two of them with the same label and
\* different values
C5_Witness ==
    /\ ListParsed
    /\ Len(parsed.comp.props.list) >= 3
    /\ parsed.comp.props.list # Collected.val
    /\ \E i, k \in 1..Len(parsed.comp.props.list) :
          /\ i < k
          /\ parsed.comp.props.list[i].label.name = parsed.comp.props.list[k].label.name
          /\ parsed.comp.props.list[i].value.s # parsed.comp.props.list[k].value.s

\* the permutations of 1..n
Perms(n) == {f \in [1..n -> 1..n] : \A i, k \in 1..n : f[i] = f[k] => i = k}

\* the tokens of one collected declaration
DeclTokens(d) == SubSeq(tokens, d.label.span.a, d.value.span.b)

RECURSIVE ReorderedDecls(_, _)
\* the tokens of the collected declarations in the order f[j], f[j+1], ..
ReorderedDecls(f, j) ==
    IF j > Len(Collected.val) THEN <<>>
    ELSE DeclTokens(Collected.val[f[j]]) \o ReorderedDecls(f, j + 1)

\* the tag with its declarations reordered by f
Reordered(f) ==
    SubSeq(tokens, 1, PropsAt - 1) \o ReorderedDecls(f, 1)
        \o SubSeq(tokens, Suffix.end + 1, Len(tokens))

HasTypeLabel ==
    /\ Parsed /\ SelfClosed /\ Ty.ok
    /\ Props_peek(tokens, PropsAt, Suffix.end) = "List"
    /\ Collected.ok
    /\ \E j \in 1..Len(Collected.val) : LabelString(Collected.val[j].label) = TypeStr

\* C7 as stated: a list with a `type` label fails with the error anchored
\* to that label, whatever the other declarations are.
C7_ReservedLabelAnchored ==
    (HasTypeLabel /\ peeked = "match") =>
        /\ ~parsed.ok
        /\ parsed.err.msg = <<"expected identifier">>
        /\ \E j \in 1..Len(Collected.val) :
              /\ LabelString(Collected.val[j].label) = TypeStr
              /\ parsed.err.span = Collected.val[j].label.span

\* C7 amended: a list with a `type` label always fails and returns no list;
\* the error is anchored to the first declaration in source order whose
\* label is `type` or carries a qualifier.
C7_FirstOffendingLabelAnchored ==
    HasTypeLabel =>
        /\ ~parsed.ok
        /\ parsed.comp = NoComp
        /\ parsed.err.msg = <<"expected identifier">>
        /\ \E j \in 1..Len(Collected.val) :
              /\ \/ LabelString(Collected.val[j].label) = TypeStr
                 \/ Collected.val[j].label.extended # <<>>
              /\ \A k \in 1..(j - 1) :
                    /\ LabelString(Collected.val[k].label) # TypeStr
                    /\ Collected.val[k].label.extended = <<>>
              /\ parsed.err.span = Collected.val[j].label.span

\* the `type` label is the last of three declarations and the error is on it
C7_Witness ==
    /\ HasTypeLabel
    /\ peeked = "match"
    /\ Len(Collected.val) >= 3
    /\ LabelString(Collected.val[Len(Collected.val)].label) = TypeStr
    /\ parsed.err.span = Collected.val[Len(Collected.val)].label.span

(***************************************************************************)
(* Property Delegate Parser and the choice of the property form.           *)
(***************************************************************************)
\* the interior is a type reference, `with`, one identifier and, when
\* comma holds, a comma
DelegateTag(comma) ==
    /\ SelfClosed /\ Ty.ok
    /\ Suffix.end = Ty.next + (IF comma THEN 2 ELSE 1)
    /\ tokens[Ty.next] = Ident(WithStr)
    /\ tokens[Ty.next + 1].k = "ident" /\ ~IsKeyword(tokens[Ty.next + 1].s)
    /\ comma => tokens[Ty.next + 2] = Comma

\* the tag with a comma put in after index i, or with the token at i + 1 removed
WithCommaAfter(i) == SubSeq(tokens, 1, i) \o <<Comma>> \o SubSeq(tokens, i + 1, Len(tokens))

WithoutTokenAfter(i) == SubSeq(tokens, 1, i) \o SubSeq(tokens, i + 2, Len(tokens))

\* C8: `Type with x` parses to the delegate x; the same tag with a comma
\* after x parses to an equal descriptor; the delegate parser fails when
\* the identifier it starts at is not `with`.
C8_DelegateAndTrailingComma ==
    Parsed =>
        /\ (DelegateTag(FALSE) \/ DelegateTag(TRUE)) =>
              /\ parsed.ok
              /\ parsed.comp.ty = Ty.val
              /\ parsed.comp.props.kind = "With"
              /\ parsed.comp.props.with.s = tokens[Ty.next + 1].s
        /\ DelegateTag(FALSE) =>
              HtmlComponent_parse(WithCommaAfter(Ty.next + 1)) = parsed
        /\ DelegateTag(TRUE) =>
              HtmlComponent_parse(WithoutTokenAfter(Ty.next + 1)) = parsed
        /\ (HasLt /\ Suffix.ok) =>
              \A i \in 2..Suffix.end :
                  (tokens[i].k = "ident" /\ tokens[i].s # WithStr)
                      => ~WithProps_parse(tokens, i, Suffix.end).ok

\* a delegate tag with the trailing comma was parsed
C8_Witness ==
    /\ pc = "parsed"
    /\ peeked = "match"
    /\ DelegateTag(TRUE)
    /\ parsed.ok
    /\ parsed.comp.props.kind = "With"

\* C9: the emitted checks and setters match the descriptor one to one: for
\* a list, one field access and one setter per declaration, over the labels
\* in the list's sorted order; for a delegate, no field access and the
\* delegate alone as the properties; without properties, no field access
\* and a builder with no setter.
C9_EmitMatchesDescriptor ==
    pc = "emitted" =>
        LET props == parsed.comp.props
            L == parsed.comp.props.list
        IN  /\ emitted.validate_comp = parsed.comp.ty
            /\ emitted.new_ty = parsed.comp.ty
            /\ props.kind = "List" =>
                  /\ emitted.prop_ref
                  /\ Len(emitted.check_props) = Len(L)
                  /\ Len(emitted.init_props.set_props) = Len(L)
                  /\ emitted.init_props.kind = "builder"
                  /\ \A j \in 1..Len(L) :
                        /\ emitted.check_props[j] = LabelString(L[j].label)
                        /\ emitted.init_props.set_props[j].label = LabelString(L[j].label)
                        /\ emitted.init_props.set_props[j].value = L[j].value.s
                  /\ \A i, k \in 1..Len(emitted.check_props) :
                        i < k => StrCmp(emitted.check_props[i], emitted.check_props[k]) <= 0
            /\ props.kind = "With" =>
                  /\ ~emitted.prop_ref
                  /\ emitted.check_props = <<>>
                  /\ emitted.init_props.kind = "with"
                  /\ emitted.init_props.with = props.with.s
                  /\ emitted.init_props.set_props = <<>>
            /\ props.kind = "None" =>
                  /\ ~emitted.prop_ref
                  /\ emitted.check_props = <<>>
                  /\ emitted.init_props.kind = "builder"
                  /\ emitted.init_props.set_props = <<>>

\* a list of several declarations, written out of order, was emitted
C9_Witness ==
    /\ pc = "emitted"
    /\ peeked = "match"
    /\ parsed.comp.props.kind = "List"
    /\ Len(emitted.check_props) >= 2
    /\ Strip(Collected.val) # Strip(parsed.comp.props.list)

\* C10: the property form is decided by the token after the type and the
\* optional colon alone: `with` selects the delegate parser, any other
\* identifier the list parser, and the parse succeeds exactly when the
\* selected parser succeeds and leaves nothing unread; with no identifier
\* there the descriptor has no properties, as for an empty interior.
C10_FormDecidedByFirstToken ==
    (Parsed /\ SelfClosed /\ Ty.ok) =>
        LET isIdent == PropsAt <= Suffix.end /\ tokens[PropsAt].k = "ident"
            isWith == isIdent /\ tokens[PropsAt].s = WithStr
            W == WithProps_parse(tokens, PropsAt, Suffix.end)
            L == ListProps_parse(tokens, PropsAt, Suffix.end)
        IN  /\ parsed.ok => parsed.comp.props.kind \in {"List", "With", "None"}
            /\ isWith =>
                  /\ parsed.ok <=> (W.ok /\ W.next > Suffix.end)
                  /\ parsed.ok => (parsed.comp.props.kind = "With"
                                   /\ parsed.comp.props.with = W.val)
            /\ (isIdent /\ ~isWith) =>
                  /\ parsed.ok <=> (L.ok /\ L.next > Suffix.end)
                  /\ parsed.ok => (parsed.comp.props.kind = "List"
                                   /\ parsed.comp.props.list = L.val)
            /\ ~isIdent =>
                  /\ parsed.ok <=> PropsAt > Suffix.end
                  /\ parsed.ok => parsed.comp.props = NoProps

\* `with` was followed by no identifier: the delegate form was selected,
\* its parser failed, and so did the parse
C10_Witness ==
    /\ pc = "parsed"
    /\ peeked = "match"
    /\ SelfClosed /\ Ty.ok
    /\ PropsAt = Suffix.end
    /\ tokens[PropsAt] = Ident(WithStr)
    /\ ~parsed.ok

====
